---- MODULE Spec2Model ----
(***************************************************************************)
(* A model of nussl's AudioSignal (src/nussl/AudioSignal.py): one signal   *)
(* object `self`, a second signal `other` used as the right operand of the *)
(* arithmetic and structural operations, and a record `last` of the most   *)
(* recent call (its operands, outcome and return value).  `window` holds   *)
(* the transform configuration of `self`.  `dataset` is one BaseDataset    *)
(* (src/nussl/datasets/base_dataset.py) and its latest signal load.        *)
(*                                                                         *)
(* numpy arrays are modelled by their shape and contents.  A sample is an  *)
(* exact rational <<numerator, denominator>> in lowest terms, so that the  *)
(* division of PeakNormalize is computed, not assumed.                     *)
(***************************************************************************)
EXTENDS Integers, Sequences, FiniteSets, TLC

\* Bounds of the model.
MaxChan == 2
MaxLen == 3
MaxSlices == 4

(***************************************************************************)
(* Exact arithmetic on samples.                                            *)
(***************************************************************************)
Abs(n) == IF n < 0 THEN -n ELSE n

Min(a, b) == IF a < b THEN a ELSE b

RECURSIVE GCD(_, _)
GCD(a, b) == IF b = 0 THEN a ELSE GCD(b, a % b)

\* n/d in lowest terms with a positive denominator (d # 0).
Rat(n, d) ==
    LET s == IF d < 0 THEN -1 ELSE 1
        g == GCD(Abs(n), Abs(d))
    IN  <<(s * n) \div g, (s * d) \div g>>

RatAdd(x, y) == Rat(x[1] * y[2] + y[1] * x[2], x[2] * y[2])

RatSub(x, y) == Rat(x[1] * y[2] - y[1] * x[2], x[2] * y[2])

RatDiv(x, y) == Rat(x[1] * y[2], x[2] * y[1])

RatAbs(x) == <<Abs(x[1]), x[2]>>

RatGT(x, y) == x[1] * y[2] > y[1] * x[2]

RatMax(x, y) == IF RatGT(y, x) THEN y ELSE x

(***************************************************************************)
(* numpy arrays.  A 2-D array of shape (nch, len) is                       *)
(* [ndim |-> 2, nch, len, d] with d a sequence of nch rows of len samples; *)
(* a 1-D array of shape (len,) is [ndim |-> 1, nch |-> 0, len, d] with d a *)
(* sequence of samples; None has ndim 0.                                   *)
(***************************************************************************)
None == [ndim |-> 0, nch |-> 0, len |-> 0, d |-> <<>>]

Arr1(row) == [ndim |-> 1, nch |-> 0, len |-> Len(row), d |-> row]

Arr2(rows, n) == [ndim |-> 2, nch |-> Len(rows), len |-> n, d |-> rows]

\* ndarray.size: the total number of elements.
Size(a) == IF a.ndim = 1 THEN a.len ELSE a.nch * a.len

\* The bounded inputs.  Sample (c, i) of the signal with seed <<base, step>>
\* is base + step * (i + c): [1,1,1] and [-2,-1,0] for `self`, [2,2,2] for
\* the right operand.
Seeds == {<<1, 0>>, <<-2, 1>>}

OtherSeeds == {<<2, 0>>}

Row(seed, c, n) == [i \in 1..n |-> Rat(seed[1] + seed[2] * ((i - 1) + (c - 1)), 1)]

Signal(seed, nch, n) == Arr2([c \in 1..nch |-> Row(seed, c, n)], n)

Signals == {Signal(sd, c, n) : sd \in Seeds, c \in 1..MaxChan, n \in 0..MaxLen}

Others == {Signal(sd, c, n) : sd \in OtherSeeds, c \in 1..MaxChan, n \in 0..MaxLen}

\* 1-D inputs of the same family (a flat time series).
Flats == {Arr1(Row(sd, 1, n)) : sd \in Seeds, n \in 0..MaxLen}

SampleRates == {8000}

BitDepths == {8, 16}

(***************************************************************************)
(* The complex spectrogram is kept by its shape: np.array([]) has ndim 1   *)
(* and no slice; the result of one f_stft call is 2-D (one channel slice); *)
(* dstack gives a 3-D array with one slice per stacked result.  n is the   *)
(* number of samples of the channel the slices were computed from, which   *)
(* with the window configuration fixes their frequency x frame shape.      *)
(***************************************************************************)
EmptySpec == [ndim |-> 1, nsl |-> 0, n |-> 0]

\* The size test left out: every spectrogram passes for non-empty.
SpecNeverSizeZero(X) == FALSE

\* np.size(X) == 0: no slice, or slices of no frame.
SpecSizeZero(X) == X.nsl = 0 \/ X.n = 0

\* Number of channel slices of a spectrogram.
SpecChannels(X) == X.nsl

Precomputed == {[ndim |-> 2, nsl |-> 1, n |-> 2]}

VARIABLES audioData, time, SampleRate, ComplexSpectrogramData, window, other, last, dataset

vars == <<audioData, time, SampleRate, ComplexSpectrogramData, window, other, last, dataset>>

(***************************************************************************)
(* Properties.                                                             *)
(***************************************************************************)
\* _audioData.shape[_LEN]
SignalLength(a) == a.len

\* _audioData.shape[_CHAN]
nChannels(a) == a.nch

\* The setter without its expand_dims: the value is stored as given.
AudioDataSetterNoExpand(value) == value

\* The AudioData setter: a value with fewer than 2 dimensions gets a
\* channel axis in front.
AudioDataSetter(value) ==
    IF value.ndim < 2 THEN Arr2(<<value.d>>, value.len) ELSE value

\* (1. / SampleRate) * np.arange(n)
TimeVector(rate, n) == [i \in 1..n |-> Rat(i - 1, rate)]

(***************************************************************************)
(* A .wav file: its sample rate and its frames, one integer sample per     *)
(* channel in each frame.                                                  *)
(***************************************************************************)
NoFile == [rate |-> 0, nch |-> 0, frames |-> <<>>]

\* np.iinfo(dtype).max + 1.0 of a 16-bit file.
FullScale == 32768

\* Rates in samples per second, small enough for a start and a duration in
\* whole seconds to fall inside a file of MaxLen frames.
FileRates == {1, 2}

\* Frame i of a file holds 2048 * (i + 2 * (c - 1)) on channel c.
WavFile(rate, nch, n) ==
    [rate |-> rate, nch |-> nch,
     frames |-> [i \in 1..n |-> [c \in 1..nch |-> 2048 * (i + 2 * (c - 1))]]]

Files == {WavFile(r, c, n) : r \in FileRates, c \in 1..MaxChan, n \in 1..MaxLen}

\* Starts and durations, in whole seconds.
Starts == {0, 1}

Durations == {0, 1, 2}

\* scipy.io.wavfile.read: a 1-D array for a mono file, (frames, channels)
\* otherwise.
WavRead(file) ==
    IF file.nch = 1
    THEN Arr1([i \in 1..Len(file.frames) |-> file.frames[i][1]])
    ELSE Arr2(file.frames, file.nch)

\* ndarray.T
Transpose(a) ==
    IF a.ndim < 2 THEN a
    ELSE Arr2([c \in 1..a.len |-> [i \in 1..a.nch |-> a.d[i][c]]], a.nch)

\* astype('float') / (np.iinfo(dtype).max + 1.0)
ToFloat(a) ==
    IF a.ndim < 2 THEN Arr1([i \in 1..a.len |-> Rat(a.d[i], FullScale)])
    ELSE Arr2([c \in 1..a.nch |-> [i \in 1..a.len |-> Rat(a.d[c][i], FullScale)]], a.len)

\* a[lo:hi, :] of a 2-D array, 0 <= lo <= hi: rows lo .. hi - 1 of the
\* first axis, clipped to its extent.
SliceRows(a, lo, hi) == Arr2(SubSeq(a.d, lo + 1, Min(hi, a.nch)), a.len)

\* The body of LoadAudioFromFile after wav.read, on a signal whose samples
\* are cur: the status and the samples it leaves.  self.SignalLength reads
\* the shape of the samples held before the call.
LoadAudioFromFile(cur, file, signalStartingPosition, signalLength) ==
    LET audioInput == ToFloat(Transpose(WavRead(file)))
        startPos == signalStartingPosition * file.rate
    IN  IF signalLength = 0
        THEN [status |-> "ok", data |-> AudioDataSetter(audioInput)]
        ELSE IF cur.ndim = 0
        THEN [status |-> "AttributeError", data |-> cur]
        ELSE IF audioInput.ndim < 2
        THEN [status |-> "IndexError", data |-> cur]
        ELSE [status |-> "ok",
              data |-> AudioDataSetter(SliceRows(audioInput, startPos,
                                                 startPos + SignalLength(cur)))]

\* The record of the latest call: its name, how it ended, the samples and
\* spectrogram of `self` before it, its arguments (for a construction the
\* dimensions and length of the array, or the start and duration asked of
\* a file) and its return value.
Call(op, status, bits, ret, retInt) ==
    [op |-> op, status |-> status, pre |-> audioData, preSpec |-> ComplexSpectrogramData,
     arg |-> other, bits |-> bits, ret |-> ret, retInt |-> retInt,
     inDim |-> 0, inLen |-> 0, file |-> NoFile, start |-> 0, dur |-> 0]

NoCall ==
    [op |-> "init", status |-> "ok", pre |-> None, preSpec |-> EmptySpec,
     arg |-> None, bits |-> 0, ret |-> None, retInt |-> -1,
     inDim |-> 0, inLen |-> 0, file |-> NoFile, start |-> 0, dur |-> 0]

(***************************************************************************)
(* Construction.                                                           *)
(***************************************************************************)
\* The window attributes __init__ derives from the sample rate:
\* int(0.06 * rate), and overlapRatio 0.5 of it rounded up.
Window(rate) ==
    [windowLength |-> (6 * rate) \div 100,
     nfft |-> (6 * rate) \div 100,
     overlapSamp |-> (((6 * rate) \div 100) + 1) \div 2]

\* LoadAudioFromArray(signal, sampleRate)
LoadAudioFromArray(signal, sampleRate) ==
    /\ audioData' = AudioDataSetter(signal)
    /\ SampleRate' = sampleRate
    /\ time' = TimeVector(sampleRate, SignalLength(AudioDataSetter(signal)))

\* AudioSignal(timeSeries=..., sampleRate=..., stft=...)
Construct(timeSeries, sampleRate, stft) ==
    /\ IF timeSeries.ndim = 0
       THEN /\ audioData' = None
            /\ time' = <<>>
            /\ SampleRate' = sampleRate
       ELSE LoadAudioFromArray(timeSeries, sampleRate)
    /\ ComplexSpectrogramData' = stft
    /\ window' = Window(sampleRate)
    /\ last' = [NoCall EXCEPT !.op = "construct", !.inDim = timeSeries.ndim,
                              !.inLen = timeSeries.len]
    /\ UNCHANGED <<other, dataset>>

\* AudioSignal(pathToInputFile=..., signalStartingPosition=start,
\* signalLength=duration): __init__ hands LoadAudioFromFile signalLength
\* in the place of signalStartingPosition and the reverse.  When the load
\* raises no signal is constructed; the attributes are those written
\* before the raise.
ConstructFromFile(file, start, duration) ==
    LET r == LoadAudioFromFile(None, file, duration, start)
    IN  /\ audioData' = r.data
        /\ SampleRate' = file.rate
        /\ time' = IF r.status = "ok" THEN TimeVector(file.rate, SignalLength(r.data))
                   ELSE <<>>
        /\ ComplexSpectrogramData' = EmptySpec
        /\ window' = IF r.status = "ok" THEN Window(file.rate) ELSE window
        /\ last' = [NoCall EXCEPT !.op = "constructFile", !.status = r.status,
                                  !.file = file, !.start = start, !.dur = duration]
        /\ UNCHANGED <<other, dataset>>

\* self.LoadAudioFromFile(path, start, length) on a constructed signal.
LoadFromFile(file, start, length) ==
    LET r == LoadAudioFromFile(audioData, file, start, length)
    IN  /\ audioData' = r.data
        /\ SampleRate' = file.rate
        /\ time' = IF r.status = "ok" THEN TimeVector(file.rate, SignalLength(r.data))
                   ELSE time
        /\ last' = [Call("loadFile", r.status, 0, None, -1) EXCEPT
                        !.file = file, !.start = start, !.dur = length]
        /\ UNCHANGED <<ComplexSpectrogramData, window, other, dataset>>

\* self.AudioData = value: the setter alone; no other attribute is written.
SetAudioData(value) ==
    /\ audioData' = AudioDataSetter(value)
    /\ last' = [Call("set", "ok", 0, None, -1) EXCEPT !.inDim = value.ndim,
                                                      !.inLen = value.len]
    /\ UNCHANGED <<time, SampleRate, ComplexSpectrogramData, window, other, dataset>>

\* self.LoadAudioFromArray(signal, sampleRate) on a constructed signal: the
\* samples, the rate and the time vector are written, nothing else.
Reload(signal, sampleRate) ==
    /\ LoadAudioFromArray(signal, sampleRate)
    /\ last' = [Call("reload", "ok", 0, None, -1) EXCEPT !.inDim = signal.ndim,
                                                         !.inLen = signal.len]
    /\ UNCHANGED <<ComplexSpectrogramData, window, other, dataset>>

\* A second signal, built from an array, to combine with.
NewOther(sig) ==
    /\ other' = AudioDataSetter(sig)
    /\ last' = NoCall
    /\ UNCHANGED <<audioData, time, SampleRate, ComplexSpectrogramData, window, dataset>>

(***************************************************************************)
(* Operator overloading and utilities.                                     *)
(***************************************************************************)
\* The guard left out: no pair of signals is refused.
ChannelsNeverDiffer(a, b) == FALSE

\* The channel-count test that guards __add__, __sub__ and concat.
ChannelsDiffer(a, b) == nChannels(a) # nChannels(b)

\* combined[0:k] += operand (sign 1) or -= operand (sign -1) on 2-D arrays.
\* The slice runs over the first axis, so it selects the first min(k, nch)
\* rows; the operand is broadcast into it when, on each axis, its extent is
\* the slice's or 1, and the statement raises ValueError otherwise.
InPlace(combined, k, operand, sign) ==
    LET r == Min(k, combined.nch)
        fits == /\ (operand.nch = r \/ operand.nch = 1)
                /\ (operand.len = combined.len \/ operand.len = 1)
        at(c, i) == operand.d[IF operand.nch = 1 THEN 1 ELSE c][IF operand.len = 1 THEN 1 ELSE i]
        row(c) == [i \in 1..combined.len |->
                      IF sign = 1 THEN RatAdd(combined.d[c][i], at(c, i))
                                  ELSE RatSub(combined.d[c][i], at(c, i))]
    IN  [ok |-> fits,
         arr |-> IF fits
                 THEN Arr2([c \in 1..combined.nch |-> IF c <= r THEN row(c) ELSE combined.d[c]],
                           combined.len)
                 ELSE combined]

\* The body shared by __add__ (sign 1) and __sub__ (sign -1): the outcome
\* and the samples of the returned AudioSignal(timeSeries=combined).
Combine(a, b, sign) ==
    IF a.ndim = 0 THEN [status |-> "AttributeError", ret |-> None]
    ELSE IF ChannelsDiffer(a, b) THEN [status |-> "ChannelMismatch", ret |-> None]
    ELSE LET r == IF Size(a) > Size(b) THEN InPlace(a, Size(b), b, sign)
                                       ELSE InPlace(b, Size(a), a, sign)
         IN  IF r.ok THEN [status |-> "ok", ret |-> AudioDataSetter(r.arr)]
                     ELSE [status |-> "ValueError", ret |-> None]

\* self + other
Add ==
    /\ last' = Call("add", Combine(audioData, other, 1).status, 0,
                    Combine(audioData, other, 1).ret, -1)
    /\ UNCHANGED <<audioData, time, SampleRate, ComplexSpectrogramData, window, other, dataset>>

\* self - other
Sub ==
    /\ last' = Call("sub", Combine(audioData, other, -1).status, 0,
                    Combine(audioData, other, -1).ret, -1)
    /\ UNCHANGED <<audioData, time, SampleRate, ComplexSpectrogramData, window, other, dataset>>

\* np.concatenate((a, b)): along the first axis; the other extents must agree.
Concatenate(a, b) ==
    [ok |-> a.len = b.len, arr |-> Arr2(a.d \o b.d, a.len)]

\* self.concat(other)
Concat ==
    /\ audioData.nch <= MaxChan
    /\ LET status == IF audioData.ndim = 0 THEN "AttributeError"
                     ELSE IF ChannelsDiffer(audioData, other) THEN "ChannelMismatch"
                     ELSE IF ~Concatenate(audioData, other).ok THEN "ValueError"
                     ELSE "ok"
       IN  /\ audioData' = IF status = "ok"
                           THEN AudioDataSetter(Concatenate(audioData, other).arr)
                           ELSE audioData
           /\ last' = Call("concat", status, 0, None, -1)
    /\ UNCHANGED <<time, SampleRate, ComplexSpectrogramData, window, other, dataset>>

\* len(ndarray): the extent of the first axis.
NdarrayLen(a) == a.nch

\* len(self)
LenOp ==
    /\ last' = Call("len", IF audioData.ndim = 0 THEN "TypeError" ELSE "ok", 0, None,
                    IF audioData.ndim = 0 THEN -1 ELSE NdarrayLen(audioData))
    /\ UNCHANGED <<audioData, time, SampleRate, ComplexSpectrogramData, window, other, dataset>>

(***************************************************************************)
(* Peak normalization.                                                     *)
(***************************************************************************)
RECURSIVE RowMaxAbs(_, _)
\* max(|row[1..k]|) of a row with at least k >= 1 samples.
RowMaxAbs(row, k) ==
    IF k = 1 THEN RatAbs(row[1]) ELSE RatMax(RowMaxAbs(row, k - 1), RatAbs(row[k]))

RECURSIVE ArrMaxAbs(_, _)
\* np.max(np.abs(a)) over the first c >= 1 rows of a non-empty 2-D array.
ArrMaxAbs(a, c) ==
    IF c = 1 THEN RowMaxAbs(a.d[1], a.len)
    ELSE RatMax(ArrMaxAbs(a, c - 1), RowMaxAbs(a.d[c], a.len))

\* The ceiling taken from the bit depth instead: 2^(bitDepth - 1).
PeakCeilingOfBits(bitDepth) == <<2 ^ (bitDepth - 1), 1>>

\* maxVal, the ceiling the peak is compared with (bitDepth is decremented
\* and then not used).
PeakCeiling(bitDepth) == <<1, 1>>

\* np.divide(a, m)
Divide(a, m) == Arr2([c \in 1..a.nch |-> [i \in 1..a.len |-> RatDiv(a.d[c][i], m)]], a.len)

\* The samples PeakNormalize(bitDepth) leaves for the non-empty samples a.
Normalized(a, bitDepth) ==
    IF RatGT(ArrMaxAbs(a, a.nch), PeakCeiling(bitDepth))
    THEN Divide(a, ArrMaxAbs(a, a.nch))
    ELSE a

\* self.PeakNormalize(bitDepth): np.abs(None) raises TypeError and np.max
\* of an array without elements raises ValueError.
PeakNormalize(bitDepth) ==
    /\ LET status == IF audioData.ndim = 0 THEN "TypeError"
                     ELSE IF Size(audioData) = 0 THEN "ValueError"
                     ELSE "ok"
       IN  /\ audioData' = IF status = "ok"
                           THEN AudioDataSetter(Normalized(audioData, bitDepth))
                           ELSE audioData
           /\ last' = Call("normalize", status, bitDepth, None, -1)
    /\ UNCHANGED <<time, SampleRate, ComplexSpectrogramData, window, other, dataset>>

(***************************************************************************)
(* STFT utilities.  FftUtils.f_stft and FftUtils.f_istft are the spectral  *)
(* transform primitive; only the shape of what they return is modelled.    *)
(***************************************************************************)
\* f_stft on one channel of n samples: the 2-D result for that channel.
f_stft(n) == [ndim |-> 2, nsl |-> 1, n |-> n]

\* np.dstack([X, Xtemp]): one more slice along the third axis.
Dstack(X, Xtemp) == [ndim |-> 3, nsl |-> X.nsl + 1, n |-> X.n]

RECURSIVE StftLoop(_, _, _, _)
\* The loop of STFT from channel i on, with spectrogram X so far.  dstack
\* needs slices of one frequency x frame shape: slices computed from
\* another number of samples stack only if `stacks` (their frame counts
\* happen to agree), and raise ValueError otherwise.
StftLoop(X, i, a, stacks) ==
    IF i > nChannels(a) THEN [status |-> "ok", X |-> X]
    ELSE IF SpecSizeZero(X) THEN StftLoop(f_stft(a.len), i + 1, a, stacks)
    ELSE IF X.n # a.len /\ ~stacks THEN [status |-> "ValueError", X |-> X]
    ELSE StftLoop(Dstack(X, f_stft(a.len)), i + 1, a, stacks)

\* self.STFT().  On a channel without samples the primitive either raises
\* (`frames` false) or returns a result without frames.
STFT(stacks, frames) ==
    /\ ComplexSpectrogramData.nsl + audioData.nch <= MaxSlices
    /\ IF audioData.ndim = 0
       THEN /\ last' = Call("stft", "NoAudioData", 0, None, -1)
            /\ UNCHANGED ComplexSpectrogramData
       ELSE IF audioData.len = 0 /\ ~frames
       THEN /\ last' = Call("stft", "ValueError", 0, None, -1)
            /\ UNCHANGED ComplexSpectrogramData
       ELSE /\ ComplexSpectrogramData' = StftLoop(ComplexSpectrogramData, 1, audioData, stacks).X
            /\ last' = Call("stft", StftLoop(ComplexSpectrogramData, 1, audioData, stacks).status,
                            0, None, -1)
    /\ UNCHANGED <<audioData, time, SampleRate, window, other, dataset>>

\* What f_istft may give for the spectrogram it is handed: the samples of
\* one reconstructed channel, or (handed a 3-D array) an error.
IstftOutcomes(X) ==
    {[err |-> FALSE, x |-> Row(sd, 1, n)] : sd \in Seeds, n \in 1..MaxLen}
        \cup (IF X.ndim = 3 THEN {[err |-> TRUE, x |-> <<>>]} ELSE {})

\* The number of passes of the loop of iSTFT: range(1, self.nChannels + 1)
\* is evaluated after self.AudioData = np.array([]).
IstftPasses == nChannels(AudioDataSetter(Arr1(<<>>)))

RECURSIVE IstftLoop(_, _, _)
\* The loop of iSTFT from pass i on, with samples A so far; every pass is
\* handed x by f_istft, which was given the whole spectrogram.  np.hstack
\* of the 2-D samples and a 1-D channel raises ValueError.
IstftLoop(A, i, x) ==
    IF i > IstftPasses THEN [status |-> "ok", A |-> A]
    ELSE IF Size(A) = 0 THEN IstftLoop(AudioDataSetter(Arr1(x)), i + 1, x)
    ELSE [status |-> "ValueError", A |-> A]

\* self.iSTFT().  When f_istft raises, the samples have already been
\* replaced by np.array([]).
ISTFT(out) ==
    /\ IF SpecSizeZero(ComplexSpectrogramData)
       THEN /\ last' = Call("istft", "NoStftData", 0, None, -1)
            /\ UNCHANGED <<audioData, time>>
       ELSE /\ audioData' = IF out.err THEN AudioDataSetter(Arr1(<<>>))
                            ELSE IstftLoop(AudioDataSetter(Arr1(<<>>)), 1, out.x).A
            /\ time' = IF out.err THEN time ELSE TimeVector(SampleRate, Len(out.x))
            /\ last' = Call("istft",
                            IF out.err THEN "ValueError"
                            ELSE IstftLoop(AudioDataSetter(Arr1(<<>>)), 1, out.x).status,
                            0, None, -1)
    /\ UNCHANGED <<SampleRate, ComplexSpectrogramData, window, other, dataset>>

(***************************************************************************)
(* BaseDataset: the sample rate of the dataset and of the signals it       *)
(* loads.  A rate of 0 stands for None.                                    *)
(***************************************************************************)
\* No dataset constructed yet.  op and status are the latest call on the
\* dataset and how it ended; for a load, preRate is the sample rate of the
\* dataset before it, argRate its sample_rate argument, inRate the rate
\* of the signal as constructed and sigRate its rate when the load ended.
NoDataset ==
    [made |-> FALSE, sample_rate |-> 0, strict_sample_rate |-> FALSE,
     op |-> "none", status |-> "ok", preRate |-> 0, argRate |-> 0, inRate |-> 0,
     sigRate |-> 0]

DatasetRates == {8000, 16000, 22050, 44100, 48000}

\* BaseDataset(folder, sample_rate=..., strict_sample_rate=...), on a
\* folder of no items.
NewDataset(sample_rate, strict_sample_rate) ==
    /\ dataset' = [NoDataset EXCEPT !.made = TRUE, !.sample_rate = sample_rate,
                                    !.strict_sample_rate = strict_sample_rate,
                                    !.op = "new"]
    /\ UNCHANGED <<audioData, time, SampleRate, ComplexSpectrogramData, window, other, last>>

\* audio_signal.resample(sample_rate): the rate of the signal afterwards.
Resample(rate, sample_rate) == sample_rate

\* The sample rate of AudioSignal(audio_data_array=..., sample_rate=...):
\* the one given, or the default of the signal class.
ArraySignalRate(sample_rate, default) ==
    IF sample_rate # 0 THEN sample_rate ELSE default

\* The sample-rate branch with its test left out: the dataset takes the
\* rate of every signal.
setup_audio_signal_adopting(ds, rate) ==
    [status |-> "ok", sample_rate |-> rate, sigRate |-> rate]

\* The sample-rate branch of _setup_audio_signal on a signal of the given
\* rate: how it ends, and the rates of the dataset and of the signal then.
setup_audio_signal(ds, rate) ==
    IF ds.sample_rate # 0 /\ ds.sample_rate # rate
    THEN IF ds.strict_sample_rate
         THEN [status |-> "DataSetException", sample_rate |-> ds.sample_rate,
               sigRate |-> rate]
         ELSE [status |-> "ok", sample_rate |-> ds.sample_rate,
               sigRate |-> Resample(rate, ds.sample_rate)]
    ELSE [status |-> "ok", sample_rate |-> rate, sigRate |-> rate]

\* The dataset after a load that built a signal of rate inRate.
DatasetAfter(op, argRate, inRate) ==
    [dataset EXCEPT !.op = op,
                    !.status = setup_audio_signal(dataset, inRate).status,
                    !.sample_rate = setup_audio_signal(dataset, inRate).sample_rate,
                    !.preRate = dataset.sample_rate,
                    !.argRate = argRate,
                    !.inRate = inRate,
                    !.sigRate = setup_audio_signal(dataset, inRate).sigRate]

\* self._load_audio_file(path) on a file of the given rate.
load_audio_file(fileRate) ==
    /\ dataset.made
    /\ dataset' = DatasetAfter("load_file", 0, fileRate)
    /\ UNCHANGED <<audioData, time, SampleRate, ComplexSpectrogramData, window, other, last>>

\* self._load_audio_from_array(audio_data, sample_rate)
load_audio_from_array(sample_rate, default) ==
    /\ dataset.made
    /\ dataset' = DatasetAfter("load_array", sample_rate,
                          ArraySignalRate(IF sample_rate # 0 THEN sample_rate
                                          ELSE dataset.sample_rate, default))
    /\ UNCHANGED <<audioData, time, SampleRate, ComplexSpectrogramData, window, other, last>>

Init ==
    /\ audioData = None
    /\ time = <<>>
    /\ SampleRate \in SampleRates
    /\ ComplexSpectrogramData = EmptySpec
    /\ window = Window(SampleRate)
    /\ other \in Others
    /\ last = NoCall
    /\ dataset = NoDataset

Next ==
    \/ \E ts \in Signals \cup {None}, r \in SampleRates, x \in Precomputed \cup {EmptySpec} :
           Construct(ts, r, x)
    \/ \E ts \in Flats, r \in SampleRates : Construct(ts, r, EmptySpec)
    \/ \E v \in Signals : SetAudioData(v)
    \/ \E v \in Flats : SetAudioData(v)
    \/ \E sig \in Signals, r \in SampleRates : Reload(sig, r)
    \/ \E sig \in Flats, r \in SampleRates : Reload(sig, r)
    \/ \E f \in Files, s \in Starts, d \in Durations : ConstructFromFile(f, s, d)
    \/ \E f \in Files, s \in Starts, n \in Durations : LoadFromFile(f, s, n)
    \/ \E sig \in Others : NewOther(sig)
    \/ Add
    \/ Sub
    \/ Concat
    \/ LenOp
    \/ \E b \in BitDepths : PeakNormalize(b)
    \/ \E stacks \in BOOLEAN, frames \in BOOLEAN : STFT(stacks, frames)
    \/ \E out \in IstftOutcomes(ComplexSpectrogramData) : ISTFT(out)
    \/ \E r \in DatasetRates \cup {0}, strict \in BOOLEAN : NewDataset(r, strict)
    \/ \E r \in DatasetRates : load_audio_file(r)
    \/ \E r \in DatasetRates \cup {0}, d \in DatasetRates : load_audio_from_array(r, d)

Spec == Init /\ [][Next]_vars

\* The arithmetic and structural operations alone, on signals built from
\* arrays: the spectrogram is not read by any of them.
NextArith ==
    \/ \E ts \in Signals \cup {None}, r \in SampleRates : Construct(ts, r, EmptySpec)
    \/ \E sig \in Others : NewOther(sig)
    \/ Add
    \/ Sub
    \/ Concat
    \/ LenOp
    \/ \E b \in BitDepths : PeakNormalize(b)

SpecArith == Init /\ [][NextArith]_vars

\* The transforms alone, with concat to change the channel count between
\* two of them.
NextTransform ==
    \/ \E ts \in Signals \cup {None}, r \in SampleRates, x \in Precomputed \cup {EmptySpec} :
           Construct(ts, r, x)
    \/ Concat
    \/ \E stacks \in BOOLEAN, frames \in BOOLEAN : STFT(stacks, frames)
    \/ \E out \in IstftOutcomes(ComplexSpectrogramData) : ISTFT(out)

SpecTransform == Init /\ [][NextTransform]_vars

\* Forward transforms alone, on signals built from arrays without a
\* precomputed spectrogram.
NextForward ==
    \/ \E ts \in Signals \cup {None}, r \in SampleRates : Construct(ts, r, EmptySpec)
    \/ \E stacks \in BOOLEAN, frames \in BOOLEAN : STFT(stacks, frames)

SpecForward == Init /\ [][NextForward]_vars

\* Every operation that writes the samples of `self` or returns a signal,
\* on signals built from flat and from 2-D arrays.
NextSamples ==
    \/ \E ts \in Signals \cup {None}, r \in SampleRates : Construct(ts, r, EmptySpec)
    \/ \E ts \in Flats, r \in SampleRates : Construct(ts, r, EmptySpec)
    \/ \E r \in SampleRates, x \in Precomputed : Construct(None, r, x)
    \/ \E v \in Signals : SetAudioData(v)
    \/ \E v \in Flats : SetAudioData(v)
    \/ \E sig \in Flats, r \in SampleRates : Reload(sig, r)
    \/ Add
    \/ Sub
    \/ Concat
    \/ \E b \in BitDepths : PeakNormalize(b)
    \/ \E out \in IstftOutcomes(ComplexSpectrogramData) : ISTFT(out)

\* The right operand is of full length, with any number of channels.
InitSamples == Init /\ other.len = MaxLen

SpecSamples == InitSamples /\ [][NextSamples]_vars

\* Signals read from files, by the constructor and by a later load.
NextFile ==
    \/ \E f \in Files, s \in Starts, d \in Durations : ConstructFromFile(f, s, d)
    \/ \E f \in Files, s \in Starts, n \in Durations : LoadFromFile(f, s, n)

\* One right operand, for the operations that do not read it.
InitOne == Init /\ other.nch = 1 /\ other.len = MaxLen

SpecFile == InitOne /\ [][NextFile]_vars

\* Sample rates around the least ones that give a window of 1 and of 2
\* samples, and a usual one.
WindowRates == {16, 17, 33, 34, 8000}

\* Construction at any of these rates, and reloads that change the rate.
NextWindow ==
    \/ \E ts \in Signals \cup {None}, r \in WindowRates : Construct(ts, r, EmptySpec)
    \/ \E sig \in Flats, r \in WindowRates : Reload(sig, r)

SpecWindow == InitOne /\ [][NextWindow]_vars

\* One dataset at a time and the signals it loads.
NextDataset ==
    \/ \E r \in DatasetRates \cup {0}, strict \in BOOLEAN : NewDataset(r, strict)
    \/ \E r \in DatasetRates : load_audio_file(r)
    \/ \E r \in DatasetRates \cup {0}, d \in DatasetRates : load_audio_from_array(r, d)

SpecDataset == InitOne /\ [][NextDataset]_vars

(***************************************************************************)
(* Properties.                                                             *)
(***************************************************************************)
\* Both operands of the latest call held samples.
Loaded == last.pre.ndim = 2 /\ last.arg.ndim = 2

\* Both operands of the latest call held at least one sample per channel.
NonEmpty == Loaded /\ last.pre.len >= 1 /\ last.arg.len >= 1

Max(a, b) == IF a < b THEN b ELSE a

\* Sample i of row c of a, or zero past its end.
Padded(a, c, i) == IF i <= a.len THEN a.d[c][i] ELSE <<0, 1>>

\* a + b aligned on the longer operand, the shorter one zero-padded.
PaddedSum(a, b) ==
    Arr2([c \in 1..a.nch |-> [i \in 1..Max(a.len, b.len) |->
              RatAdd(Padded(a, c, i), Padded(b, c, i))]], Max(a.len, b.len))

\* a - b for a at least as long as b, b zero-padded.
PaddedDifference(a, b) ==
    Arr2([c \in 1..a.nch |-> [i \in 1..a.len |->
              RatSub(a.d[c][i], Padded(b, c, i))]], a.len)

\* C1: add(a, b) on non-empty signals of equal channel counts returns the longer
\* operand's samples with the shorter operand's samples summed into the
\* prefix; the result has max(len(a), len(b)) samples.
C1_AddAlignsOnLonger ==
    (last.op = "add" /\ NonEmpty /\ last.pre.nch = last.arg.nch)
        => /\ last.status = "ok"
           /\ last.ret = PaddedSum(last.pre, last.arg)

\* C2: subtract(a, b), for non-empty a at least as long as b and equal channel
\* counts, returns a[i] - b[i] for i < len(b) and a[i] from there on.
C2_SubIsSelfMinusOther ==
    (last.op = "sub" /\ NonEmpty /\ last.pre.nch = last.arg.nch /\ last.pre.len >= last.arg.len)
        => /\ last.status = "ok"
           /\ last.ret = PaddedDifference(last.pre, last.arg)

\* C3: a.concat(b) on non-empty signals of equal channel counts C leaves a with C channels
\* and len(a) + len(b) samples, each row a's row followed by b's row.
C3_ConcatAppendsInTime ==
    (last.op = "concat" /\ NonEmpty /\ last.pre.nch = last.arg.nch)
        => /\ last.status = "ok"
           /\ audioData.nch = last.pre.nch
           /\ audioData.len = last.pre.len + last.arg.len
           /\ \A c \in 1..last.pre.nch : audioData.d[c] = last.pre.d[c] \o last.arg.d[c]

\* C4: len(signal) is the number of samples per channel, whatever the
\* number of channels (stated for signals with at least one sample).
C4_LenIsSampleCount ==
    (last.op = "len" /\ last.pre.ndim = 2 /\ last.pre.len >= 1)
        => /\ last.status = "ok"
           /\ last.retInt = last.pre.len

\* C5: add, subtract and concat of signals whose channel counts differ end
\* in the channel-mismatch error, return nothing and leave the samples of
\* both operands as they were.
C5_ChannelMismatchIsAnError ==
    (last.op \in {"add", "sub", "concat"} /\ Loaded /\ last.pre.nch # last.arg.nch)
        => /\ last.status = "ChannelMismatch"
           /\ last.ret = None
           /\ audioData = last.pre
           /\ other = last.arg

\* A one-channel signal with samples was added to a two-channel one of the
\* same length, and the call ended in the channel-mismatch error.
C5_Witness ==
    /\ last.op = "add"
    /\ last.pre.ndim = 2 /\ last.pre.nch = 1 /\ last.arg.nch = 2
    /\ last.pre.len = last.arg.len /\ last.pre.len >= 1
    /\ last.status = "ChannelMismatch"

\* C6: whenever samples and spectrogram are both present, the spectrogram
\* has one channel slice per channel of the samples, also after repeated
\* forward transforms.
C6_SpectrogramChannelsAgree ==
    (audioData.ndim = 2 /\ ~SpecSizeZero(ComplexSpectrogramData))
        => SpecChannels(ComplexSpectrogramData) = audioData.nch

\* C7: the inverse transform of the spectrogram of a C-channel signal
\* succeeds and leaves samples of C channels.
C7_RoundTripKeepsChannels ==
    (/\ last.op = "istft"
     /\ last.pre.ndim = 2
     /\ last.preSpec.nsl >= 1 /\ last.preSpec.n >= 1
     /\ SpecChannels(last.preSpec) = last.pre.nch)
        => /\ last.status = "ok"
           /\ audioData.nch = last.pre.nch

PeakBefore == ArrMaxAbs(last.pre, last.pre.nch)

Shaped(a) ==
    /\ a.ndim = 2
    /\ a.nch >= 1
    /\ Len(a.d) = a.nch
    /\ \A c \in 1..a.nch : Len(a.d[c]) = a.len

\* C11: a flat array of N samples, given to the constructor, to the
\* setter or to a reload, leaves one channel of N samples; whatever the
\* operations so far, the samples of `self`, once loaded, and the samples
\* of a returned signal are 2-D with at least one channel.
C11_ShapeNormalization ==
    /\ audioData.ndim # 0 => Shaped(audioData)
    /\ last.ret.ndim # 0 => Shaped(last.ret)
    /\ (last.op \in {"construct", "set", "reload"} /\ last.inDim = 1)
           => /\ nChannels(audioData) = 1
              /\ SignalLength(audioData) = last.inLen
              /\ audioData.d[1] \in {f.d : f \in Flats}

\* A signal was constructed from a flat array of two or more samples.
C11_Witness ==
    /\ last.op = "construct"
    /\ last.inDim = 1 /\ last.inLen >= 2
    /\ audioData.nch = 1 /\ audioData.len = last.inLen

\* The samples of `file`, as floats, at frame indices [lo, hi) of every
\* channel, the indices clipped to the file.
FileSamples(file, lo, hi) ==
    LET n == Len(file.frames)
        a == Min(lo, n)
        b == Max(a, Min(hi, n))
    IN  Arr2([c \in 1..file.nch |->
                 [i \in 1..(b - a) |-> Rat(file.frames[a + i][c], FullScale)]],
             b - a)

\* C12: a signal constructed from a file with start s and duration d is
\* constructed without error and holds, for every channel, the file's
\* samples at indices [s * rate, s * rate + d * rate); with duration 0 it
\* holds the whole file.
C12_FileSlice ==
    last.op = "constructFile"
        => /\ last.status = "ok"
           /\ audioData =
                  IF last.dur = 0
                  THEN FileSamples(last.file, 0, Len(last.file.frames))
                  ELSE FileSamples(last.file, last.start * last.file.rate,
                                   last.start * last.file.rate + last.dur * last.file.rate)

\* ceil(n / 2) for n >= 0.
CeilHalf(n) == CHOOSE k \in 0..n : 2 * k >= n /\ 2 * (k - 1) < n

\* C13: whatever positive rate a signal was constructed with, and whatever
\* rate its samples were reloaded with since, the overlap is half the
\* window length rounded up and less than the window length, and the
\* transform size is at least the window length.
C13_WindowConfiguration ==
    last.op \in {"construct", "reload"}
        => /\ window.overlapSamp = CeilHalf(window.windowLength)
           /\ window.overlapSamp < window.windowLength
           /\ window.nfft >= window.windowLength

\* C14: whenever `self` holds samples, the time vector has one entry per
\* sample, and entry i (counted from 0) is i / SampleRate.
C14_TimeAxisFollowsSamples ==
    audioData.ndim = 2
        => /\ Len(time) = SignalLength(audioData)
           /\ \A i \in 1..Len(time) : time[i] = Rat(i - 1, SampleRate)

\* The latest call on the dataset was a load.
IsLoad == dataset.op \in {"load_file", "load_array"}

\* C15: a load that returns leaves a signal at the sample rate of the
\* dataset; a load never changes a sample rate the dataset already had; a
\* signal built at another rate is brought to the rate of the dataset,
\* unless the dataset is strict, and then the load, and no other, raises
\* DataSetException.
C15_DatasetRateIsUniform ==
    IsLoad
        => /\ dataset.status = "ok" => dataset.sigRate = dataset.sample_rate
           /\ dataset.preRate # 0 => dataset.sample_rate = dataset.preRate
           /\ dataset.status = "DataSetException"
                  <=> /\ dataset.strict_sample_rate
                      /\ dataset.preRate # 0
                      /\ dataset.inRate # dataset.preRate
           /\ dataset.status \in {"ok", "DataSetException"}

\* A dataset that is not strict loaded a signal of another rate than its
\* own, and the signal was brought to the rate of the dataset.
C15_Witness ==
    /\ IsLoad
    /\ ~dataset.strict_sample_rate
    /\ dataset.preRate # 0 /\ dataset.inRate # dataset.preRate
    /\ dataset.status = "ok"
    /\ dataset.sigRate = dataset.preRate

====
